---- MODULE Spec2Model ----
(***************************************************************************)
(* Model of model.py: the Soft Actor-Critic wrappers Actor, Critic and     *)
(* Entropy and the forward pass of ActorNet / CriticNet.                   *)
(*                                                                         *)
(* Numbers.  Tensors of reals are modelled exactly on grids:               *)
(*   - actions, means, noise: fixed point, Scale units per 1.0;            *)
(*   - std and alpha (results of exp): decimal floats [m, e] = m * 10^e    *)
(*     with a four digit mantissa, because exp(-20) and exp(2) do not fit  *)
(*     one fixed-point grid;                                               *)
(*   - critic parameters: Unit units per 1.0, Unit chosen so that          *)
(*     MaxUpdates successive soft updates are exact;                       *)
(*   - log_std, log_alpha, gradients: whole numbers.                       *)
(* One batch row is modelled; a parameter tensor is one element.           *)
(***************************************************************************)
EXTENDS Integers, Sequences, FiniteSets, TLC

VARIABLES
    op,              \* the operation performed last
    ret,             \* what that operation returned
    call,            \* the arguments of that call; for a learn, the gradient of
                     \* its loss and the accumulated gradient it found
    min_action,      \* Actor.min_action
    max_action,      \* Actor.max_action
    actor_param,     \* Actor.actor_net parameters
    actor_grad,      \* their .grad accumulators
    critic_net,      \* Critic.critic_net parameters, in parameters() order
    target_net,      \* Critic.target_net parameters, in parameters() order
    critic_grad,     \* .grad accumulators of critic_net
    tau,             \* Critic.tau, <<numerator, denominator>>
    n_updates,       \* number of Critic.update calls so far
    ctor_action_dim, \* the action_dim handed to Entropy.__init__
    target_entropy,  \* Entropy.target_entropy
    log_alpha,       \* Entropy.log_alpha
    alpha,           \* Entropy.alpha
    entropy_grad     \* .grad accumulator of log_alpha

vars == <<op, ret, call, min_action, max_action, actor_param, actor_grad,
          critic_net, target_net, critic_grad, tau, n_updates,
          ctor_action_dim, target_entropy, log_alpha, alpha, entropy_grad>>

actor_vars == <<min_action, max_action, actor_param, actor_grad>>
critic_vars == <<critic_net, target_net, critic_grad, tau, n_updates>>
entropy_vars == <<ctor_action_dim, target_entropy, log_alpha, alpha, entropy_grad>>

----------------------------------------------------------------------------
(* Bounds of the model *)

\* largest standard-normal draw, in standard deviations
MaxNoise == 3
\* how far the log_std head's output may leave the clamp interval
LogStdOver == 3
\* largest action_dim handed to Entropy.__init__ besides the default
MaxActionDim == 3
\* number of Critic.update calls explored
MaxUpdates == 2

(* Program constants *)

\* ActorNet.__init__(..., action_dim=5), never overridden by Actor.__init__
ActionDim == 5
\* torch.clamp(log_std, -20, 2)
LogStdMin == -20
LogStdMax == 2
\* Entropy.__init__(..., action_dim=5)
EntropyDefaultDim == 5

----------------------------------------------------------------------------
(* Arithmetic *)

\* fixed-point units per 1.0
Scale == 10 ^ 2
\* units per 1.0 in which 1e-6 is one unit
Micro == 10 ^ 6

Min(a, b) == IF a <= b THEN a ELSE b
Max(a, b) == IF a >= b THEN a ELSE b

\* a / b rounded to the nearest integer, b > 0
RoundDiv(a, b) ==
    IF a >= 0 THEN (2 * a + b) \div (2 * b) ELSE -((2 * (-a) + b) \div (2 * b))

\* product of two fixed-point numbers
MulFix(a, b) == RoundDiv(a * b, Scale)

\* torch.clamp(x, lo, hi) = min(max(x, lo), hi)
Clamp(x, lo, hi) == Min(Max(x, lo), hi)

\* torch.tanh on fixed point: the Pade approximant x(27+x^2)/(27+9x^2),
\* which is odd, increasing and reaches 1 at |x| = 3 (a float tanh
\* rounds to exactly 1.0 for large arguments too)
TanhPos(x) ==
    IF x >= 3 * Scale THEN Scale
    ELSE RoundDiv(x * (27 * Scale * Scale + x * x), 27 * Scale * Scale + 9 * x * x)
Tanh(x) == IF x >= 0 THEN TanhPos(x) ELSE -TanhPos(-x)

\* exp(k) for whole k in -25..7, four significant digits
ExpSeq ==
  << [m |-> 1389, e |-> -14], [m |-> 3775, e |-> -14], [m |-> 1026, e |-> -13],
     [m |-> 2789, e |-> -13], [m |-> 7583, e |-> -13], [m |-> 2061, e |-> -12],
     [m |-> 5603, e |-> -12], [m |-> 1523, e |-> -11], [m |-> 4140, e |-> -11],
     [m |-> 1125, e |-> -10], [m |-> 3059, e |-> -10], [m |-> 8315, e |-> -10],
     [m |-> 2260, e |-> -9], [m |-> 6144, e |-> -9], [m |-> 1670, e |-> -8],
     [m |-> 4540, e |-> -8], [m |-> 1234, e |-> -7], [m |-> 3355, e |-> -7],
     [m |-> 9119, e |-> -7], [m |-> 2479, e |-> -6], [m |-> 6738, e |-> -6],
     [m |-> 1832, e |-> -5], [m |-> 4979, e |-> -5], [m |-> 1353, e |-> -4],
     [m |-> 3679, e |-> -4], [m |-> 1000, e |-> -3], [m |-> 2718, e |-> -3],
     [m |-> 7389, e |-> -3], [m |-> 2009, e |-> -2], [m |-> 5460, e |-> -2],
     [m |-> 1484, e |-> -1], [m |-> 4034, e |-> -1], [m |-> 1097, e |-> 0] >>
Exp(k) == ExpSeq[k + 26]

\* order of two positive decimal floats with normalised mantissas
FloatLeq(a, b) == a.e < b.e \/ (a.e = b.e /\ a.m <= b.m)

\* decimal float times fixed point, as fixed point
MulFloatFix(f, x) ==
    IF f.e >= 0 THEN f.m * x * (10 ^ f.e)
    ELSE IF -f.e > 8 THEN 0
    ELSE RoundDiv(f.m * x, 10 ^ (-f.e))

----------------------------------------------------------------------------
(* Tensors: one batch row of shape (1, ActionDim); bound vectors of shape (L,) *)

Dims == 1..ActionDim

\* a row whose odd positions hold a and whose even positions hold b
Row(n, a, b) == [i \in 1..n |-> IF i % 2 = 1 THEN a ELSE b]

\* broadcasting a shape-(L,) tensor against a shape-(1, ActionDim) tensor
Broadcastable(v) == Len(v) = 1 \/ Len(v) = ActionDim
At(v, i) == IF Len(v) = 1 THEN v[1] ELSE v[i]

None == [kind |-> "none"]
NoArgs == [kind |-> "none"]
\* RuntimeError: the size of tensor a must match the size of tensor b
ShapeError == [kind |-> "error"]

----------------------------------------------------------------------------
(* ActorNet *)

\* ActorNet.forward with the clamp of log_std left out
ActorNet_forward_noclamp(mean_head, log_std_head) ==
    IF ~Broadcastable(max_action) THEN ShapeError
    ELSE [kind |-> "forward",
          mean |-> [i \in Dims |-> MulFix(At(max_action, i), Tanh(mean_head[i]))],
          std |-> [i \in Dims |-> Exp(log_std_head[i])]]

\* ActorNet.forward; mean_head and log_std_head are the outputs of the two
\* linear heads for the observation at hand
ActorNet_forward(mean_head, log_std_head) ==
    IF ~Broadcastable(max_action) THEN ShapeError
    ELSE [kind |-> "forward",
          mean |-> [i \in Dims |-> MulFix(At(max_action, i), Tanh(mean_head[i]))],
          std |-> [i \in Dims |->
                     Exp(Clamp(log_std_head[i], LogStdMin, LogStdMax))]]

----------------------------------------------------------------------------
(* Actor *)

\* Actor.__init__: bounds kept, ActorNet built with its default action_dim
Actor_init(min_a, max_a, w) ==
    /\ min_action = min_a
    /\ max_action = max_a
    /\ actor_param = w
    /\ actor_grad = 0

\* Actor.choose_action clamping to [-max_action, max_action]
Actor_choose_action_symmetric(mean_head, log_std_head, eps) ==
    LET fw == ActorNet_forward(mean_head, log_std_head)
    IN  IF fw.kind = "error" \/ ~Broadcastable(min_action) THEN ShapeError
        ELSE LET sample == [i \in Dims |->
                              fw.mean[i] + MulFloatFix(fw.std[i], eps[i])]
             IN  [kind |-> "action",
                  action |-> [i \in Dims |->
                      Clamp(sample[i], -At(max_action, i), At(max_action, i))]]

\* Actor.choose_action; eps is the standard-normal draw behind dist.sample()
Actor_choose_action(mean_head, log_std_head, eps) ==
    LET fw == ActorNet_forward(mean_head, log_std_head)
    IN  IF fw.kind = "error" \/ ~Broadcastable(min_action) THEN ShapeError
        ELSE LET sample == [i \in Dims |->
                              fw.mean[i] + MulFloatFix(fw.std[i], eps[i])]
             IN  [kind |-> "action",
                  action |-> [i \in Dims |->
                      Clamp(sample[i], At(min_action, i), At(max_action, i))]]

\* 1 - action^2 + 1e-6, in Micro units
OneMinusSquare(a) == (Scale * Scale - a * a) * (Micro \div (Scale * Scale)) + 1

\* Actor.evaluate with the correction term taken from the unclamped tanh
Actor_evaluate_unclamped(mean_head, log_std_head, z) ==
    LET fw == ActorNet_forward(mean_head, log_std_head)
    IN  IF fw.kind = "error" \/ ~Broadcastable(min_action) THEN ShapeError
        ELSE LET u == [i \in Dims |-> fw.mean[i] + MulFloatFix(fw.std[i], z)]
                 squashed == [i \in Dims |-> Tanh(u[i])]
                 action == [i \in Dims |->
                      Clamp(squashed[i], At(min_action, i), At(max_action, i))]
             IN  [kind |-> "evaluate",
                  action |-> action,
                  action_logprob |-> [i \in Dims |->
                      [log_prob_at |-> u[i],
                       minus_log_of |-> OneMinusSquare(squashed[i])]],
                  z |-> z, mean |-> fw.mean, std |-> fw.std]

\* Actor.evaluate; z is the one scalar drawn from Normal(0, 1).  The log
\* probability is kept as its two arguments: Normal(mean, std).log_prob at
\* log_prob_at, minus the logarithm of minus_log_of.
Actor_evaluate(mean_head, log_std_head, z) ==
    LET fw == ActorNet_forward(mean_head, log_std_head)
    IN  IF fw.kind = "error" \/ ~Broadcastable(min_action) THEN ShapeError
        ELSE LET u == [i \in Dims |-> fw.mean[i] + MulFloatFix(fw.std[i], z)]
                 squashed == [i \in Dims |-> Tanh(u[i])]
                 action == [i \in Dims |->
                      Clamp(squashed[i], At(min_action, i), At(max_action, i))]
             IN  [kind |-> "evaluate",
                  action |-> action,
                  action_logprob |-> [i \in Dims |->
                      [log_prob_at |-> u[i],
                       minus_log_of |-> OneMinusSquare(action[i])]],
                  z |-> z, mean |-> fw.mean, std |-> fw.std]

----------------------------------------------------------------------------
(* Optimizer and autograd, as the wrappers use them.  torch.optim.Adam is   *)
(* modelled as a plain gradient step: what matters here is which           *)
(* parameters it owns and which gradient it reads.                          *)

\* optimizer.zero_grad() left out
ZeroGrad_skipped(g) == g

\* optimizer.zero_grad(): the accumulator of a parameter is cleared
ZeroGrad(g) == 0

\* loss.backward(): the gradient of the loss is added to the accumulator
Backward(g, dloss) == g + dloss

\* optimizer.step(): one step against the accumulated gradient; lr is
\* <<numerator, denominator>>, unit the units per 1.0 of the parameter
OptimStep(p, g, lr, unit) == p - (lr[1] * unit * g) \div lr[2]

\* learning rates handed to the constructors
ActorLr == <<1, 1>>
CriticLr == <<1, 2>>
EntropyLr == <<1, 1>>

\* Actor.learn; dloss is the gradient of the supplied loss
Actor_learn(dloss) ==
    LET g0 == ZeroGrad(actor_grad)
        g1 == Backward(g0, dloss)
    IN  [param |-> OptimStep(actor_param, g1, ActorLr, 1), grad |-> g1]

----------------------------------------------------------------------------
(* CriticNet and Critic *)

\* CriticNet.parameters(), in registration order: the q1 branch, then q2
ParamNames == <<"q1", "q2">>
NParams == Len(ParamNames)
Params == 1..NParams

\* the values of tau explored, <<numerator, denominator>>
Taus == {<<1, 4>>, <<1, 2>>, <<3, 4>>}
\* units per 1.0 of a critic parameter: every tau above is a multiple of
\* 1/4, so a value that starts on a whole number stays on the grid through
\* MaxUpdates soft updates and the division in SoftUpdate is exact
Unit == 4 ^ MaxUpdates

\* CriticNet.forward: each branch reads its own parameters only
CriticNet_forward(net, state, action) ==
    [kind |-> "q",
     q1 |-> net[1] * state + action * Unit,
     q2 |-> net[2] * state + action * Unit]

\* Critic.__init__: two CriticNet() built one after the other, Adam over
\* critic_net.parameters()
Critic_init(t, w, tw) ==
    /\ tau = t
    /\ critic_net = w
    /\ target_net = tw
    /\ critic_grad = [i \in Params |-> 0]
    /\ n_updates = 0

\* the networks whose parameters the optimizer steps; both, as if Adam had
\* been given the two networks
OptimizedNets_both == {"critic_net", "target_net"}

\* the networks whose parameters the optimizer steps
OptimizedNets == {"critic_net"}

\* zip pairing each target parameter with the online parameter at the
\* mirrored position
Zip_crossed(tp, p) == [i \in Params |-> <<tp[i], p[NParams + 1 - i]>>]

\* zip(self.target_net.parameters(), self.critic_net.parameters())
Zip(tp, p) == [i \in Params |-> <<tp[i], p[i]>>]

\* the soft update with the weight of the online parameter forgotten
SoftUpdate_unweighted(target_param, param) ==
    (target_param * (tau[2] - tau[1]) + param * tau[2]) \div tau[2]

\* target_param * (1.0 - tau) + param * tau
SoftUpdate(target_param, param) ==
    (target_param * (tau[2] - tau[1]) + param * tau[1]) \div tau[2]

\* Critic.update: the new target parameters
Critic_update ==
    LET pairs == Zip(target_net, critic_net)
    IN  [i \in Params |-> SoftUpdate(pairs[i][1], pairs[i][2])]

\* nn.MSELoss() on one element, and its derivative in the estimate
MSELoss(q, target_q) == (q - target_q) * (q - target_q)
MSEGrad(q, target_q) == 2 * (q - target_q)

\* gradient of loss_func(q1, target_q) + loss_func(q2, target_q) in each
\* parameter: a branch's parameters receive the derivative of its own term
Critic_loss_grad(current_q1, current_q2, target_q) ==
    [i \in Params |-> IF ParamNames[i] = "q1" THEN MSEGrad(current_q1, target_q)
                      ELSE MSEGrad(current_q2, target_q)]

\* Critic.learn: the networks and accumulators after the call
Critic_learn(current_q1, current_q2, target_q) ==
    LET dloss == Critic_loss_grad(current_q1, current_q2, target_q)
        g0 == [i \in Params |-> ZeroGrad(critic_grad[i])]
        g1 == [i \in Params |-> Backward(g0[i], dloss[i])]
        step(net) == [i \in Params |-> OptimStep(net[i], g1[i], CriticLr, Unit)]
    IN  [critic_net |-> IF "critic_net" \in OptimizedNets
                        THEN step(critic_net) ELSE critic_net,
         target_net |-> IF "target_net" \in OptimizedNets
                        THEN step(target_net) ELSE target_net,
         grad |-> g1]

----------------------------------------------------------------------------
(* Entropy *)

\* Entropy.__init__ with the sign of target_entropy lost
Entropy_init_positive(action_dim) ==
    /\ ctor_action_dim = action_dim
    /\ target_entropy = action_dim
    /\ log_alpha = 0
    /\ alpha = Exp(log_alpha)
    /\ entropy_grad = 0

\* Entropy.__init__
Entropy_init(action_dim) ==
    /\ ctor_action_dim = action_dim
    /\ target_entropy = -action_dim
    /\ log_alpha = 0
    /\ alpha = Exp(log_alpha)
    /\ entropy_grad = 0

\* Entropy.learn that recomputes alpha from the new log_alpha
Entropy_learn_refreshing(dloss) ==
    LET g0 == ZeroGrad(entropy_grad)
        g1 == Backward(g0, dloss)
        la == OptimStep(log_alpha, g1, EntropyLr, 1)
    IN  [log_alpha |-> la, grad |-> g1, alpha |-> Exp(la),
         target_entropy |-> target_entropy]

\* Entropy.learn: the fields of the object after the call
Entropy_learn(dloss) ==
    LET g0 == ZeroGrad(entropy_grad)
        g1 == Backward(g0, dloss)
    IN  [log_alpha |-> OptimStep(log_alpha, g1, EntropyLr, 1), grad |-> g1,
         alpha |-> alpha, target_entropy |-> target_entropy]

----------------------------------------------------------------------------
(* Inputs *)

\* outputs of the mean head, fixed point
MeanHeadVals == {-2 * Scale, 0, 2 * Scale}
MeanHeadRows == {Row(ActionDim, a, a) : a \in MeanHeadVals}
\* outputs of the log_std head: below, at, inside, at and above the clamp
LogStdHeadVals ==
    {LogStdMin - LogStdOver, LogStdMin, 0, LogStdMax, LogStdMax + LogStdOver}
LogStdHeadRows ==
    {Row(ActionDim, a, a) : a \in LogStdHeadVals}
        \cup {Row(ActionDim, LogStdMin - LogStdOver, LogStdMax + LogStdOver)}
\* standard-normal draws, fixed point
NoiseVals == {-MaxNoise * Scale, 0, MaxNoise * Scale}
NoiseRows == {Row(ActionDim, a, b) : a, b \in NoiseVals}

\* <<min, max>> of one action dimension
BoundPairs == {<<-Scale, Scale>>, <<0, Scale>>, <<-(Scale \div 2), Scale \div 2>>}
\* lengths of the bound vectors handed to Actor.__init__
BoundLens == {1, 2, 3, ActionDim}
ActionBounds ==
    {[min |-> Row(n, a[1], b[1]), max |-> Row(n, a[2], b[2])] :
        n \in BoundLens, a \in BoundPairs, b \in BoundPairs}

\* initial and reachable parameter values, in whole units
ParamVals == {-1, 0, 1}
LogAlphaVals == {-2, -1, 0, 1, 2}
CriticVals == {0, 1}
CriticNets == [Params -> {v * Unit : v \in CriticVals}]
\* gradients of a supplied loss; Q estimates and targets
LossGrads == {-1, 0, 1}
QVals == {0, 1}

\* action_dim handed to Entropy.__init__
EntropyDims == (1..MaxActionDim) \cup {EntropyDefaultDim}

ZeroNet == [i \in Params |-> 0]

----------------------------------------------------------------------------
(* Operations of the Actor *)

Idle == <<actor_vars, critic_vars, entropy_vars>>

ActorForward ==
    \E mh \in MeanHeadRows, lh \in LogStdHeadRows :
        /\ op' = "forward"
        /\ ret' = ActorNet_forward(mh, lh)
        /\ call' = [mean_head |-> mh, log_std_head |-> lh]
        /\ UNCHANGED Idle

ActorChooseAction ==
    \E mh \in MeanHeadRows, lh \in LogStdHeadRows, eps \in NoiseRows :
        /\ op' = "choose_action"
        /\ ret' = Actor_choose_action(mh, lh, eps)
        /\ call' = [mean_head |-> mh, log_std_head |-> lh, eps |-> eps]
        /\ UNCHANGED Idle

ActorEvaluate ==
    \E mh \in MeanHeadRows, lh \in LogStdHeadRows, z \in NoiseVals :
        /\ op' = "evaluate"
        /\ ret' = Actor_evaluate(mh, lh, z)
        /\ call' = [mean_head |-> mh, log_std_head |-> lh]
        /\ UNCHANGED Idle

\* a caller's backward pass through the outputs of evaluate
ActorBackward ==
    \E d \in LossGrads \ {0} :
        /\ Backward(actor_grad, d) \in ParamVals
        /\ op' = "actor_backward"
        /\ actor_grad' = Backward(actor_grad, d)
        /\ ret' = None
        /\ call' = NoArgs
        /\ UNCHANGED <<min_action, max_action, actor_param, critic_vars, entropy_vars>>

ActorLearn ==
    \E d \in LossGrads :
        LET after == Actor_learn(d)
        IN  /\ after.param \in ParamVals
            /\ op' = "actor_learn"
            /\ actor_param' = after.param
            /\ actor_grad' = after.grad
            /\ ret' = None
            /\ call' = [dloss |-> d, found |-> actor_grad]
            /\ UNCHANGED <<min_action, max_action, critic_vars, entropy_vars>>

----------------------------------------------------------------------------
(* Operations of the Critic *)

CriticUpdate ==
    /\ n_updates < MaxUpdates
    /\ op' = "update"
    /\ target_net' = Critic_update
    /\ n_updates' = n_updates + 1
    /\ ret' = None
    /\ call' = NoArgs
    /\ UNCHANGED <<critic_net, critic_grad, tau, actor_vars, entropy_vars>>

CriticGetQValue ==
    \E state \in {1}, action \in {0, 1} :
        /\ op' = "get_q_value"
        /\ ret' = CriticNet_forward(critic_net, state, action)
        /\ call' = [state |-> state, action |-> action]
        /\ UNCHANGED Idle

CriticGetTargetQValue ==
    \E state \in {1}, action \in {0, 1} :
        /\ op' = "get_target_q_value"
        /\ ret' = CriticNet_forward(target_net, state, action)
        /\ call' = [state |-> state, action |-> action]
        /\ UNCHANGED Idle

\* a caller's backward pass through the outputs of get_q_value
CriticBackward ==
    \E d \in [Params -> LossGrads] :
        LET g == [i \in Params |-> Backward(critic_grad[i], d[i])]
        IN  /\ d # ZeroNet
            /\ \A i \in Params : g[i] \in ParamVals
            /\ op' = "critic_backward"
            /\ critic_grad' = g
            /\ ret' = None
            /\ call' = NoArgs
            /\ UNCHANGED <<critic_net, target_net, tau, n_updates,
                           actor_vars, entropy_vars>>

CriticLearn ==
    \E q1 \in QVals, q2 \in QVals, tq \in QVals :
        LET after == Critic_learn(q1, q2, tq)
        IN  /\ after.critic_net \in CriticNets
            /\ op' = "critic_learn"
            /\ critic_net' = after.critic_net
            /\ target_net' = after.target_net
            /\ critic_grad' = after.grad
            /\ ret' = None
            /\ call' = [dloss |-> Critic_loss_grad(q1, q2, tq),
                        found |-> critic_grad]
            /\ UNCHANGED <<tau, n_updates, actor_vars, entropy_vars>>

----------------------------------------------------------------------------
(* Operations of Entropy *)

\* a caller's backward pass through alpha
EntropyBackward ==
    \E d \in LossGrads \ {0} :
        /\ Backward(entropy_grad, d) \in ParamVals
        /\ op' = "entropy_backward"
        /\ entropy_grad' = Backward(entropy_grad, d)
        /\ ret' = None
        /\ call' = NoArgs
        /\ UNCHANGED <<ctor_action_dim, target_entropy, log_alpha, alpha,
                       actor_vars, critic_vars>>

EntropyLearn ==
    \E d \in LossGrads :
        LET after == Entropy_learn(d)
        IN  /\ after.log_alpha \in LogAlphaVals
            /\ op' = "entropy_learn"
            /\ log_alpha' = after.log_alpha
            /\ entropy_grad' = after.grad
            /\ alpha' = after.alpha
            /\ target_entropy' = after.target_entropy
            /\ ret' = None
            /\ call' = [dloss |-> d, found |-> entropy_grad]
            /\ UNCHANGED <<ctor_action_dim, actor_vars, critic_vars>>

----------------------------------------------------------------------------
(* Specifications: one per object, and one of the three learn paths *)

Fresh == op = "init" /\ ret = None /\ call = NoArgs

InitActor ==
    /\ Fresh
    /\ \E b \in ActionBounds : Actor_init(b.min, b.max, 0)
    /\ Critic_init(<<1, 2>>, ZeroNet, ZeroNet)
    /\ Entropy_init(EntropyDefaultDim)
NextActor == ActorForward \/ ActorChooseAction \/ ActorEvaluate
SpecActor == InitActor /\ [][NextActor]_vars

InitCritic ==
    /\ Fresh
    /\ Actor_init(<<-Scale>>, <<Scale>>, 0)
    /\ \E t \in Taus, w \in CriticNets, tw \in CriticNets : Critic_init(t, w, tw)
    /\ Entropy_init(EntropyDefaultDim)
NextCritic ==
    CriticUpdate \/ CriticLearn \/ CriticGetQValue \/ CriticGetTargetQValue
SpecCritic == InitCritic /\ [][NextCritic]_vars

InitEntropy ==
    /\ Fresh
    /\ Actor_init(<<-Scale>>, <<Scale>>, 0)
    /\ Critic_init(<<1, 2>>, ZeroNet, ZeroNet)
    /\ \E n \in EntropyDims : Entropy_init(n)
NextEntropy == EntropyLearn \/ EntropyBackward
SpecEntropy == InitEntropy /\ [][NextEntropy]_vars

InitLearn ==
    /\ Fresh
    /\ \E w \in ParamVals : Actor_init(<<-Scale>>, <<Scale>>, w)
    /\ \E w \in CriticNets : Critic_init(<<1, 2>>, w, ZeroNet)
    /\ Entropy_init(EntropyDefaultDim)
NextLearn ==
    \/ ActorLearn \/ ActorBackward
    \/ CriticLearn \/ CriticBackward
    \/ EntropyLearn \/ EntropyBackward
SpecLearn == InitLearn /\ [][NextLearn]_vars

----------------------------------------------------------------------------
(* Claims about the Critic, under SpecCritic *)

\* C1: every Critic.update sets each target parameter to
\* (1 - tau) * old target + tau * online parameter at the same position,
\* for every tau and after any sequence of learn and update calls.
C1_SoftUpdateInOrder ==
    [][op' = "update" =>
         \A i \in Params :
            tau[2] * target_net'[i] =
                (tau[2] - tau[1]) * target_net[i] + tau[1] * critic_net[i]]_vars

\* an update after a learn and an earlier update, with distinct online
\* parameters and every target parameter strictly between grid points
C1_Witness ==
    /\ op = "update"
    /\ n_updates >= 2
    /\ critic_grad # ZeroNet
    /\ critic_net[1] # critic_net[2]
    /\ \A i \in Params : target_net[i] % Unit # 0

\* C7: an update that finds every target parameter equal to its online
\* parameter leaves the target parameters unchanged, for every tau.
C7_EqualWeightsFixedPoint ==
    [][(op' = "update" /\ target_net = critic_net) => target_net' = target_net]_vars

\* an update has run on equal, non-zero weights (tau < 1: the weights are
\* equal after an update only if they were equal before it)
C7_Witness ==
    /\ op = "update"
    /\ target_net = critic_net
    /\ \A i \in Params : critic_net[i] # 0

\* C10: only update changes target parameters, and update changes no online
\* parameter; learn and the two value queries leave the target alone.
C10_TargetChangesOnlyInUpdate ==
    [][/\ op' # "update" => target_net' = target_net
       /\ op' = "update" => critic_net' = critic_net]_vars

\* a learn with a non-zero gradient has run before any update, on a target
\* network that differs from the online network in every parameter
C10_Witness ==
    /\ op = "critic_learn"
    /\ n_updates = 0
    /\ call.dloss # ZeroNet
    /\ \A i \in Params : target_net[i] # critic_net[i]

----------------------------------------------------------------------------
(* Claims about the Actor and ActorNet, under SpecActor *)

\* C2: every element of the array choose_action returns lies within
\* [min_action, max_action] of its dimension, whatever noise was drawn.
C2_ActionWithinBounds ==
    (op = "choose_action" /\ ret.kind = "action") =>
        \A i \in Dims :
            /\ At(min_action, i) <= ret.action[i]
            /\ ret.action[i] <= At(max_action, i)

\* choose_action has clamped at both ends: with the largest noise, one
\* element sits on a zero lower bound and another on its upper bound
C2_Witness ==
    /\ op = "choose_action"
    /\ ret.kind = "action"
    /\ \E i \in Dims : call.eps[i] = -MaxNoise * Scale /\ At(min_action, i) = 0
                       /\ ret.action[i] = 0
    /\ \E j \in Dims : call.eps[j] = MaxNoise * Scale
                       /\ ret.action[j] = At(max_action, j)

\* C3: the action evaluate returns is clamp(tanh(mean + std * z), min_action,
\* max_action) for the z, mean and std of the same return value, and the
\* correction term is the logarithm of 1 - action^2 + 1e-6 of that clamped
\* action.
C3_EvaluateActionFromReturnedNoise ==
    (op = "evaluate" /\ ret.kind = "evaluate") =>
        \A i \in Dims :
            /\ ret.action[i] =
                 Clamp(Tanh(ret.mean[i] + MulFloatFix(ret.std[i], ret.z)),
                       At(min_action, i), At(max_action, i))
            /\ ret.action_logprob[i].minus_log_of =
                 (Scale * Scale - ret.action[i] * ret.action[i])
                     * (Micro \div (Scale * Scale)) + 1

\* evaluate has run with non-zero noise and the clamp has changed the
\* squashed value of some element
C3_Witness ==
    /\ op = "evaluate"
    /\ ret.kind = "evaluate"
    /\ ret.z # 0
    /\ \E i \in Dims :
          ret.action[i] # Tanh(ret.mean[i] + MulFloatFix(ret.std[i], ret.z))

\* C4: every std ActorNet.forward returns is strictly positive and within
\* [exp(-20), exp(2)], also when the log_std head leaves [-20, 2].
C4_StdWithinExpBounds ==
    ret.kind \in {"forward", "evaluate"} =>
        \A i \in Dims :
            /\ ret.std[i].m > 0
            /\ FloatLeq([m |-> 2061, e |-> -12], ret.std[i])
            /\ FloatLeq(ret.std[i], [m |-> 7389, e |-> -3])

\* forward has run on log_std head outputs below and above the clamp interval
C4_Witness ==
    /\ op = "forward"
    /\ ret.kind = "forward"
    /\ \E i \in Dims : call.log_std_head[i] > LogStdMax
    /\ \E i \in Dims : call.log_std_head[i] < LogStdMin

\* C6: with min_action = [-1, -1] and max_action = [1, 1], choose_action
\* returns an array of shape (1, 2) with every value in [-1, 1].
C6_TwoBoundsGiveTwoActions ==
    (/\ op = "choose_action"
     /\ min_action = <<-Scale, -Scale>>
     /\ max_action = <<Scale, Scale>>) =>
        /\ ret.kind = "action"
        /\ Len(ret.action) = Len(max_action)
        /\ \A i \in 1..Len(max_action) :
              -Scale <= ret.action[i] /\ ret.action[i] <= Scale

----------------------------------------------------------------------------
(* Claims about Entropy, under SpecEntropy *)

\* C8: right after Entropy.__init__ with action_dim = n, target_entropy is
\* -n, log_alpha is 0 and alpha is 1.0.
C8_EntropyAfterConstruction ==
    op = "init" =>
        /\ target_entropy = -ctor_action_dim
        /\ log_alpha = 0
        /\ alpha = [m |-> 1000, e |-> -3]

\* Entropy constructed with action_dim = 3
C8_Witness ==
    /\ op = "init"
    /\ ctor_action_dim = 3
    /\ target_entropy = -3
    /\ entropy_grad = 0

\* C9: after any sequence of learn calls alpha is still 1.0 and
\* target_entropy still -action_dim, whatever log_alpha has become.
C9_AlphaNotRefreshed ==
    /\ alpha = [m |-> 1000, e |-> -3]
    /\ target_entropy = -ctor_action_dim

\* a learn has moved log_alpha, and alpha is no longer exp(log_alpha)
C9_Witness ==
    /\ op = "entropy_learn"
    /\ log_alpha # 0
    /\ alpha # Exp(log_alpha)

----------------------------------------------------------------------------
(* Claim about the three learn methods, under SpecLearn *)

\* C5: each learn clears the accumulated gradient, back-propagates the
\* supplied loss and steps once: afterwards the accumulator holds the
\* gradient of that loss alone and the parameter has moved by the learning
\* rate times that gradient, whatever had been accumulated before.
C5_LearnUsesOnlySuppliedLoss ==
    [][/\ op' = "actor_learn" =>
            /\ actor_grad' = call'.dloss
            /\ ActorLr[2] * (actor_param - actor_param') = ActorLr[1] * call'.dloss
       /\ op' = "critic_learn" =>
            \A i \in Params :
               /\ critic_grad'[i] = call'.dloss[i]
               /\ CriticLr[2] * (critic_net[i] - critic_net'[i]) =
                      CriticLr[1] * Unit * call'.dloss[i]
       /\ op' = "entropy_learn" =>
            /\ entropy_grad' = call'.dloss
            /\ EntropyLr[2] * (log_alpha - log_alpha') = EntropyLr[1] * call'.dloss
      ]_vars

\* a critic learn has run on accumulators an earlier backward pass had
\* filled, while the actor's and the temperature's accumulators are filled
C5_Witness ==
    /\ op = "critic_learn"
    /\ \A i \in Params : call.found[i] # 0 /\ call.dloss[i] # 0
                         /\ call.found[i] # call.dloss[i]
    /\ actor_grad # 0
    /\ entropy_grad # 0

====
